---- MODULE Spec2Model ----
(***************************************************************************)
(* EvolutionEngine: the population lifecycle controller (main orchestrator *)
(* script), the provider client MLApi and the parts of Genetics,           *)
(* NeuralNetwork and Ecosystem the controller relies on.                   *)
(*                                                                         *)
(* Agents live in a heap `pool`; an agent is named by its index in the     *)
(* pool, and the arrays bacteria / deadBacteria / survivors hold such      *)
(* indices.  Gene values are kept in tenths (5 is the expression threshold *)
(* 0.5); energy, age and position enter a frame as its random draws.       *)
(* Population sizes are scaled down so that the cap is reached within the  *)
(* heap bound.                                                             *)
(***************************************************************************)
EXTENDS Integers, Sequences, FiniteSets, TLC

VARIABLES
  pool,               \* heap of agent records; index = object identity
  bacteria,           \* let bacteria = []        (active set, array of refs)
  deadBacteria,       \* let deadBacteria = []    (recently dead, fading out)
  generation,         \* let generation = 0
  selecting,          \* let selecting = false
  bacteriaIdCounter,  \* let bacteriaIdCounter = 0
  paused,             \* let paused = false
  connected,          \* MLApi.connected
  hazardZones,        \* Ecosystem.hazardZones.length
  bootPhase,          \* position of the start-up async function
  selPhase,           \* position of the setTimeout callback of triggerSelection
  survivors,          \* the array captured by the callback, once detached
  survAliased,        \* TRUE while `survivors` is the same array as `bacteria`
  offspringCount,     \* reproduceGA local, computed before the provider call
  initReqs,           \* pending MLApi.initPopulation requests
  epoch,              \* number of times bacteriaIdCounter was reset to 0
  fn,                 \* the Genetics / NeuralNetwork function called last
  arg,                \* its arguments as they were before the call
  ret,                \* its return value and its arguments after the call
  subject,            \* one agent followed through Ecosystem.update
  tick                \* number of Ecosystem.update calls the subject saw

vars == << pool, bacteria, deadBacteria, generation, selecting,
           bacteriaIdCounter, paused, connected, hazardZones,
           bootPhase, selPhase, survivors, survAliased, offspringCount,
           initReqs, epoch, fn, arg, ret, subject, tick >>

\* the state of the controller, and the state of the unit harness that calls
\* the pure functions of Genetics, NeuralNetwork and Ecosystem one at a time
simVars == << pool, bacteria, deadBacteria, generation, selecting,
              bacteriaIdCounter, paused, connected, hazardZones,
              bootPhase, selPhase, survivors, survAliased, offspringCount,
              initReqs, epoch >>
labVars == << fn, arg, ret, subject, tick >>

----------------------------------------------------------------------------
(* Bounds of the model *)

MaxAgents == 3        \* agents created in one run
MaxResets == 1        \* calls of initPopulation after start-up
MaxGeneration == 1    \* accepted selection events between two resets
MaxSample == 3        \* agents in a population handed to a statistic
MaxZonesAdded == 7    \* addHazardZone calls in a row

----------------------------------------------------------------------------
(* Program constants *)

MAX_POPULATION == 2                 \* hard cap (600 in the source, scaled)
initialPop == 1                     \* let initialPop = 200, scaled
MAX_HAZARDS == 5
TRAIT_GENE_COUNT == 40
NN_TOPOLOGY == << 6, 8, 2 >>
HALF == 5                           \* the expression threshold 0.5, in tenths
elitismPct == 10                    \* let elitismPct = 10

GeneVals == {2, 8}                  \* gene values 0.2 and 0.8
TraitIdx == {0}                     \* trait indices whose genes are tracked
ProviderLens == {106}               \* genome length of the provider interface

Null == "null"

\* a heap slot nothing refers to any more
Gone ==
  [ id |-> 0, alive |-> FALSE, deathTime |-> FALSE, deathCause |-> "",
    genome |-> [len |-> 0, by |-> "", t |-> [i \in TraitIdx |-> 0]],
    deadAdds |-> 0 ]

----------------------------------------------------------------------------
(* NeuralNetwork.countWeights and the genome layout *)

RECURSIVE countWeightsFrom(_, _)
countWeightsFrom(topology, l) ==
  IF l > Len(topology) THEN 0
  ELSE topology[l - 1] * topology[l] + topology[l]
       + countWeightsFrom(topology, l + 1)

\* faulty variant: the bias terms left out of the count
countWeightsWithoutBiases(topology) ==
  topology[1] * topology[2] + topology[2] * topology[3]

countWeights(topology) == countWeightsFrom(topology, 2)

NN_WEIGHT_COUNT == countWeights(NN_TOPOLOGY)
GENOME_LENGTH == TRAIT_GENE_COUNT + NN_WEIGHT_COUNT

\* Genetics.createGenome followed by the trait bias of createBacterium:
\* a Float64Array(GENOME_LENGTH); a boosted gene is 0.5 + random*0.5, the
\* others random*0.45.
createGenome ==
  { [len |-> GENOME_LENGTH, by |-> "engine", t |-> g] :
      g \in [TraitIdx -> GeneVals] }

\* Genetics.crossover (all three operators): a Float64Array(GENOME_LENGTH)
\* whose gene at each index is parent A's or parent B's.
crossover(genomeA, genomeB) ==
  { [len |-> GENOME_LENGTH, by |-> "engine", t |-> g] :
      g \in { h \in [TraitIdx -> GeneVals] :
                \A i \in TraitIdx : h[i] \in {genomeA.t[i], genomeB.t[i]} } }

\* Genetics.mutate: in place, length kept; a mutated gene is clamped to [0,1].
mutate(genome) ==
  { [genome EXCEPT !.t = g] : g \in [TraitIdx -> GeneVals] }

\* new Float64Array(genomeArr) on a provider response.
providerGenomes ==
  { [len |-> n, by |-> "provider", t |-> g] :
      n \in ProviderLens, g \in [TraitIdx -> GeneVals] }

----------------------------------------------------------------------------
(* Helpers on arrays of references *)

Range(s) == { s[i] : i \in 1..Len(s) }

\* arr.filter(b => b.alive) against a given heap
FilterAlive(p, arr) == SelectSeq(arr, LAMBDA u : p[u].alive)

Max(a, b) == IF a >= b THEN a ELSE b
Min(a, b) == IF a <= b THEN a ELSE b

Prefix(s, n) == SubSeq(s, 1, Min(Len(s), n))
Reverse(s) == [i \in 1..Len(s) |-> s[Len(s) + 1 - i]]
RemoveAt(s, i) == SubSeq(s, 1, i - 1) \o SubSeq(s, i + 1, Len(s))

\* the array the pending callback holds
Survivors == IF survAliased THEN bacteria ELSE survivors

\* Heap slots nothing refers to any more are cleared.  Of an agent that is
\* only in deadBacteria nothing but its fade-out is read again: its genome
\* and its death cause are cleared as well.
Collect(p, b, d, s) ==
  [u \in DOMAIN p |->
     IF u \in Range(b) \cup Range(s) THEN p[u]
     ELSE IF u \in Range(d)
          THEN [p[u] EXCEPT !.genome = Gone.genome, !.deathCause = ""]
     ELSE Gone]

----------------------------------------------------------------------------
(* createBacterium *)

\* faulty variant: the counter is read but not advanced
NextIdStuck(c) == c

\* line 233: id: ++bacteriaIdCounter
NextId(c) == c + 1

\* the ids k successive createBacterium calls hand out, counter at c
RECURSIVE Ids(_, _)
Ids(c, k) == IF k = 0 THEN << >> ELSE << NextId(c) >> \o Ids(NextId(c), k - 1)

\* bacteriaIdCounter after these k calls
CounterAfter(c, k) == IF k = 0 THEN c ELSE Ids(c, k)[k]

createBacterium(genome, id) ==
  [ id         |-> id,
    alive      |-> TRUE,
    deathTime  |-> FALSE,
    deathCause |-> "",
    genome     |-> genome,
    deadAdds   |-> 0 ]

\* the records of the agents created one after the other from genomes gs
NewAgents(gs, c) ==
  [i \in 1..Len(gs) |-> createBacterium(gs[i], Ids(c, Len(gs))[i])]

NewRefs(p, k) == [i \in 1..k |-> Len(p) + i]

----------------------------------------------------------------------------
(* MLApi: what each call hands back to the controller *)

\* outcomes of one request to the provider
Outcomes == {"neterr", "notok", "nofields", "ok"}

\* MLApi.initPopulation / MLApi.reproduce: null when not connected, when
\* fetch throws or when the status is not OK; otherwise the parsed body,
\* whatever it holds.
MLApiResult(conn, outcome) ==
  IF ~conn THEN Null
  ELSE IF outcome \in {"neterr", "notok"} THEN Null
  ELSE IF outcome = "nofields" THEN "body-without-fields"
  ELSE "body"

----------------------------------------------------------------------------
(* Initial state: the script has run, the start-up function awaits the probe *)

Init ==
  /\ pool = << >>
  /\ bacteria = << >>
  /\ deadBacteria = << >>
  /\ generation = 0
  /\ selecting = FALSE
  /\ bacteriaIdCounter = 0
  /\ paused = FALSE
  /\ connected = FALSE
  /\ hazardZones = 0
  /\ bootPhase = "probe"
  /\ selPhase = "idle"
  /\ survivors = << >>
  /\ survAliased = FALSE
  /\ offspringCount = 0
  /\ initReqs = << >>
  /\ epoch = 0
  /\ fn = "none"
  /\ arg = << >>
  /\ ret = << >>
  /\ subject = << >>
  /\ tick = 0

----------------------------------------------------------------------------
(* buildBrain and the NeuralNetwork constructor, by array lengths *)

\* Array.prototype.slice(from, to) on an array of len elements
SliceLen(len, from, to) == Max(0, Min(len, to) - Min(len, from))

\* buildBrain: new NeuralNetwork(NN_TOPOLOGY, genome.slice(TRAIT_GENE_COUNT,
\* GENOME_LENGTH)); the constructor copies the array it is given and sets
\* weightCount from the topology, without comparing the two
brainOf(genome) ==
  [ weightCount |-> countWeights(NN_TOPOLOGY),
    weights     |-> SliceLen(genome.len, TRAIT_GENE_COUNT, GENOME_LENGTH) ]

----------------------------------------------------------------------------
(* initPopulation *)

InFlight == selPhase \in {"timer", "reproduce"}

\* lines 278-307, with the array `arr` that `bacteria` names at that moment,
\* the recently dead `dead`, the id counter at c and the array surv still
\* held by a pending callback: push the
\* agents built from the genomes gs, then Ecosystem.reset.  The statistics
\* request that follows only feeds the charts.
InitBody(arr, dead, c, gs, surv) ==
  LET k  == Len(gs)
      p1 == pool \o NewAgents(gs, c)
      b1 == arr \o NewRefs(pool, k)
  IN /\ Len(pool) + k <= MaxAgents
     /\ bacteria' = b1
     /\ deadBacteria' = dead
     /\ pool' = Collect(p1, b1, dead, surv)
     /\ bacteriaIdCounter' = CounterAfter(c, k)
     /\ hazardZones' = 0

\* lines 263-270: the synchronous head.  A pending callback keeps the old
\* array; `bacteria` now names a fresh one.
DetachedSurvivors == IF InFlight THEN Survivors ELSE << >>

\* initPopulation() called.  Not connected: MLApi returns null at once and the
\* function runs to its end without yielding.  Connected: it stops at the
\* await of the provider request.
InitCall(conn, boot) ==
  /\ generation' = 0
  /\ epoch' = epoch + 1
  /\ survivors' = DetachedSurvivors
  /\ survAliased' = FALSE
  /\ IF MLApiResult(conn, "ok") = Null
     THEN /\ \E gs \in [1..initialPop -> createGenome] :
               InitBody(<< >>, << >>, 0, gs, DetachedSurvivors)
          /\ initReqs' = initReqs
          /\ bootPhase' = IF boot THEN "running" ELSE bootPhase
     ELSE /\ bacteria' = << >>
          /\ deadBacteria' = << >>
          /\ bacteriaIdCounter' = 0
          /\ pool' = Collect(pool, << >>, << >>, DetachedSurvivors)
          /\ initReqs' = Append(initReqs, [boot |-> boot])
          /\ bootPhase' = IF boot THEN "init" ELSE bootPhase
          /\ UNCHANGED hazardZones
  /\ UNCHANGED << selecting, paused, selPhase, offspringCount >>

\* the start-up function: checkConnection resolves, then initPopulation()
CheckConnection ==
  /\ bootPhase = "probe"
  /\ UNCHANGED labVars
  /\ \E ok \in BOOLEAN :
       /\ connected' = ok
       /\ InitCall(ok, TRUE)

\* btnReset click / KeyR, once the start-up probe has resolved
Reset ==
  /\ bootPhase # "probe"
  /\ epoch <= MaxResets
  /\ InitCall(connected, FALSE)
  /\ UNCHANGED << connected, labVars >>

\* the provider answers a pending MLApi.initPopulation request
InitResponse ==
  \E i \in 1..Len(initReqs), outcome \in Outcomes :
    LET req == initReqs[i]
        res == MLApiResult(connected, outcome)
    IN
    /\ initReqs' = RemoveAt(initReqs, i)
    /\ IF res = "body-without-fields"
       THEN \* apiResult.genomes.length throws a TypeError
            /\ bootPhase' = IF req.boot THEN "crashed" ELSE bootPhase
            /\ UNCHANGED << pool, bacteria, deadBacteria, bacteriaIdCounter,
                            hazardZones >>
       ELSE /\ IF res = Null
               THEN \E gs \in [1..initialPop -> createGenome] :
                      InitBody(bacteria, deadBacteria, bacteriaIdCounter,
                               gs, survivors)
               ELSE \E n \in ProviderLens :
                    \E gs \in [1..initialPop ->
                                 { g \in providerGenomes : g.len = n }] :
                      InitBody(bacteria, deadBacteria, bacteriaIdCounter,
                               gs, survivors)
            \* await MLApi.computeStats(bacteria)
            /\ bootPhase' = IF req.boot THEN "stats" ELSE bootPhase
    /\ UNCHANGED << generation, selecting, paused, connected, selPhase,
                    survivors, survAliased, offspringCount, epoch,
                    labVars >>

\* the statistics request of the start-up initPopulation ends (computeStats
\* catches every failure); the start-up function then calls
\* requestAnimationFrame(update)
BootStatsResponse ==
  /\ bootPhase = "stats"
  /\ bootPhase' = "running"
  /\ UNCHANGED << pool, bacteria, deadBacteria, generation, selecting,
                  bacteriaIdCounter, paused, connected, hazardZones,
                  selPhase, survivors, survAliased, offspringCount,
                  initReqs, epoch, labVars >>

----------------------------------------------------------------------------
(* Controls *)

\* btnPause click / KeyP
TogglePause ==
  /\ paused' = ~paused
  /\ UNCHANGED << pool, bacteria, deadBacteria, generation, selecting,
                  bacteriaIdCounter, connected, hazardZones, bootPhase,
                  selPhase, survivors, survAliased, offspringCount,
                  initReqs, epoch, labVars >>

----------------------------------------------------------------------------
(* triggerSelection *)

\* line 400: const hasTrait = b.genome[traitIndex] > 0.5
hasTrait(genome, traitIndex) == genome.t[traitIndex] > HALF

\* lines 399-408: the agents of `alive` the cull marks dead
Culled(alive, traitIndex) ==
  { u \in Range(alive) : ~hasTrait(pool[u].genome, traitIndex) }

\* lines 402-405 applied to one agent
KillBySelection(b) ==
  [b EXCEPT !.alive = FALSE, !.deathTime = TRUE, !.deathCause = "selection",
            !.deadAdds = @ + 1]

\* Ecosystem.addHazardZone: push, then shift when more than 5
addHazardZone(n) == IF n + 1 > MAX_HAZARDS THEN n ELSE n + 1

\* faulty variant: the selecting flag is not looked at
acceptedWhileSelecting(sel, alive) == Len(alive) # 0

\* lines 369-371: if (selecting) return; if (alive.length === 0) return
accepted(sel, alive) == ~sel /\ Len(alive) # 0

\* btnSelect click / Space, with the trait pick(TRAIT_POOL) returns
triggerSelectionAt(traitIndex) ==
  LET alive  == FilterAlive(pool, bacteria)
      killed == Culled(alive, traitIndex)
      p1     == [u \in DOMAIN pool |->
                   IF u \in killed THEN KillBySelection(pool[u]) ELSE pool[u]]
      d1     == deadBacteria \o SelectSeq(alive, LAMBDA u : u \in killed)
      b1     == FilterAlive(p1, bacteria)
  IN /\ accepted(selecting, alive)
     /\ generation < MaxGeneration
     /\ selecting' = TRUE
     /\ generation' = generation + 1
     /\ deadBacteria' = d1
     /\ bacteria' = b1
     /\ pool' = Collect(p1, b1, d1, << >>)
     /\ hazardZones' = addHazardZone(hazardZones)
     /\ selPhase' = "timer"
     /\ survivors' = << >>
     /\ survAliased' = TRUE
     /\ UNCHANGED << bacteriaIdCounter, paused, connected, bootPhase,
                     offspringCount, initReqs, epoch, labVars >>

triggerSelection == \E traitIndex \in TraitIdx : triggerSelectionAt(traitIndex)

----------------------------------------------------------------------------
(* reproduceGA and the setTimeout callback *)

\* faulty variant: no minimum of one offspring
OffspringCountWithoutMinimum(n) == (n * 3) \div 10

\* line 472
OffspringCount(n) == Max(1, (n * 3) \div 10)

\* lines 513-516: tournamentSelect twice, crossover, mutate
ChildGenomes(S) ==
  UNION { UNION { mutate(c) : c \in crossover(pool[a].genome, pool[b].genome) }
          : a \in Range(S), b \in Range(S) }

\* lines 495-496: the genomes of one provider response
ProviderOffspring(S) == providerGenomes

\* faulty variant: the new array taken over without the filter
ReplacementUnfiltered(p, newBacteria) == newBacteria

\* line 528: bacteria = newBacteria.filter(b => b.alive)
Replacement(p, newBacteria) == FilterAlive(p, newBacteria)

\* reproduceGA has returned: selecting = false.  The statistics request that
\* follows only feeds the charts.
CallbackDone(p1, b1, k) ==
  /\ Len(pool) + k <= MaxAgents
  /\ bacteria' = b1
  /\ pool' = Collect(p1, b1, deadBacteria, << >>)
  /\ bacteriaIdCounter' = CounterAfter(bacteriaIdCounter, k)
  /\ selecting' = FALSE
  /\ selPhase' = "idle"
  /\ survivors' = << >>
  /\ survAliased' = FALSE
  /\ offspringCount' = 0
  /\ UNCHANGED << deadBacteria, generation, paused, connected, hazardZones,
                  bootPhase, initReqs, epoch >>

\* an exception leaves reproduceGA: the callback ends, selecting stays set
CallbackThrows ==
  /\ selPhase' = "crashed"
  /\ survivors' = << >>
  /\ survAliased' = FALSE
  /\ offspringCount' = 0
  /\ pool' = Collect(pool, bacteria, deadBacteria, << >>)
  /\ UNCHANGED << bacteria, deadBacteria, generation, selecting,
                  bacteriaIdCounter, paused, connected, hazardZones,
                  bootPhase, initReqs, epoch >>

\* faulty variant: the new array starts empty and holds the offspring only
KeptSurvivorsNone(S) == << >>

\* lines 491-493 and 507-509: for (const s of survivors) newBacteria.push(s)
KeptSurvivors(S) == S

\* lines 484-528 over the array S with n offspring whose genomes come from
\* the set G; a parent picked from an empty S is undefined and its first
\* field access throws
Breed(S, n, G) ==
  IF Len(S) = 0 /\ n > 0
  THEN CallbackThrows
  ELSE \E gs \in [1..n -> G] :
         LET p1 == pool \o NewAgents(gs, bacteriaIdCounter)
             newBacteria == KeptSurvivors(S) \o NewRefs(pool, n)
         IN CallbackDone(p1, Replacement(p1, newBacteria), n)

\* the 1200 ms timer fires: reproduceGA(survivors) up to its first await
TimerFires ==
  /\ selPhase = "timer"
  /\ UNCHANGED labVars
  /\ LET S == Survivors IN
     IF Len(S) = 0
     THEN CallbackDone(pool, bacteria, 0)
     ELSE IF MLApiResult(connected, "ok") = Null
     THEN Breed(S, OffspringCount(Len(S)), ChildGenomes(S))
     ELSE /\ selPhase' = "reproduce"
          /\ offspringCount' = OffspringCount(Len(S))
          /\ UNCHANGED << pool, bacteria, deadBacteria, generation,
                          selecting, bacteriaIdCounter, paused, connected,
                          hazardZones, bootPhase, survivors, survAliased,
                          initReqs, epoch >>

\* the provider answers the pending MLApi.reproduce request
ReproduceResponse ==
  /\ selPhase = "reproduce"
  /\ UNCHANGED labVars
  /\ \E outcome \in Outcomes :
       LET res == MLApiResult(connected, outcome)
           S   == Survivors
       IN IF res = "body-without-fields"
          THEN CallbackThrows  \* apiResult.offspring_genomes.length
          ELSE IF res = Null
          THEN Breed(S, offspringCount, ChildGenomes(S))
          ELSE Breed(S, offspringCount, ProviderOffspring(S))

----------------------------------------------------------------------------
(* update: one animation frame *)

\* lines 179-192 of Ecosystem.update, as the controller sees them: a living
\* agent of the array is dead afterwards (starvation or predation) or not
KillInEcosystem(b) == [b EXCEPT !.alive = FALSE, !.deathCause = "ecosystem"]

\* lines 557-560 applied to one agent
Detect(b) == [b EXCEPT !.deathTime = TRUE, !.deadAdds = @ + 1]

\* faulty variant: the selecting flag left out of the guard
BuddingAllowedIgnoringSelection(len, sel) == len < MAX_POPULATION

\* line 589
BuddingAllowed(len, sel) == len < MAX_POPULATION /\ ~sel

\* line 600: the budders that get their turn before the cap stops the loop
BuddingParents(budders, len) == Prefix(budders, MAX_POPULATION - len)

\* lines 652-653
DieOfOldAge(b) == [b EXCEPT !.alive = FALSE, !.deathCause = "old age"]

\* The energy of an agent and its age are inputs of the frame: which living
\* agents have energy >= BUDDING_ENERGY_THRESHOLD and win the budding draw,
\* and which are past their maximum age and lose the old-age draw.
update ==
  /\ bootPhase = "running"
  /\ ~paused
  /\ LET alive0 == Range(FilterAlive(pool, bacteria)) IN
     \E eaten \in SUBSET alive0 :
       LET \* Ecosystem.update(dt, bacteria, w, h)
           p1 == [u \in DOMAIN pool |->
                    IF u \in eaten THEN KillInEcosystem(pool[u]) ELSE pool[u]]
           \* detect newly dead bacteria (lines 555-566)
           newlyDead == SelectSeq(bacteria,
                          LAMBDA u : ~p1[u].alive /\ ~p1[u].deathTime)
           p2 == [u \in DOMAIN pool |->
                    IF u \in Range(newlyDead) THEN Detect(p1[u]) ELSE p1[u]]
           d1 == deadBacteria \o Reverse(newlyDead)
           b1 == SelectSeq(bacteria, LAMBDA u : u \notin Range(newlyDead))
           eligible == IF BuddingAllowed(Len(b1), selecting)
                       THEN { u \in Range(b1) : p2[u].alive }
                       ELSE {}
       IN \E chosen \in SUBSET eligible :
            LET parents == BuddingParents(
                             SelectSeq(b1, LAMBDA u : u \in chosen), Len(b1))
                k == Len(parents)
            IN /\ Len(pool) + k <= MaxAgents
               \* a budder the cap stops is the same frame as one not drawn
               /\ k = Cardinality(chosen)
               /\ \E gs \in [1..k -> UNION { mutate(pool[u].genome) : u \in Range(b1) }],
                     nExpired \in {0, Len(deadBacteria)},
                     old \in SUBSET { u \in Range(b1) : p2[u].alive } :
                    /\ \A i \in 1..k : gs[i] \in mutate(pool[parents[i]].genome)
                    /\ LET children == NewAgents(gs, bacteriaIdCounter)
                           \* old-age death: flag only, the next frame's
                           \* detection loop does the rest
                           p3 == [u \in DOMAIN pool |->
                                    IF u \in old THEN DieOfOldAge(p2[u])
                                    ELSE p2[u]]
                           b2 == b1 \o NewRefs(pool, k)
                           \* faded-out entries leave deadBacteria
                           d2 == SubSeq(d1, nExpired + 1, Len(d1))
                       IN /\ bacteria' = b2
                          /\ deadBacteria' = d2
                          /\ pool' = Collect(p3 \o children, b2, d2, survivors)
                          /\ bacteriaIdCounter' =
                               CounterAfter(bacteriaIdCounter, k)
  /\ UNCHANGED << generation, selecting, paused, connected, hazardZones,
                  bootPhase, selPhase, survivors, survAliased,
                  offspringCount, initReqs, epoch, labVars >>

----------------------------------------------------------------------------

Next ==
  \/ CheckConnection
  \/ Reset
  \/ InitResponse
  \/ BootStatsResponse
  \/ TogglePause
  \/ triggerSelection
  \/ TimerFires
  \/ ReproduceResponse
  \/ update

Spec == Init /\ [][Next]_vars

\* The scheduling the liveness of the selection callback rests on: a timer
\* set with setTimeout fires, and a fetch settles (with a response or with
\* an error), so the pending step of the callback is taken in the end.
FairSpec == Spec /\ WF_vars(TimerFires) /\ WF_vars(ReproduceResponse)

----------------------------------------------------------------------------
(* Genetics, NeuralNetwork and the metabolism of Ecosystem, value by value. *)
(* A JS array is a function on 0..n-1.  Gene values, weights, inputs and    *)
(* outputs are in tenths; energy is in thousandths.                         *)

Length(a) == Cardinality(DOMAIN a)

\* a read past the end of a typed array stored into a typed array
NaN == "NaN"

\* const TRAIT_POOL = [ ... ]: 40 entries, each named here by its position
TRAIT_POOL_LENGTH == 40
TRAIT_POOL == [i \in 0..(TRAIT_POOL_LENGTH - 1) |-> i]

\* faulty variant: a gene at the threshold counts as expressed
ExpressedAtThreshold(genome, i) == i \in DOMAIN genome /\ genome[i] >= HALF

\* analytics.js line 403: genome[i] > 0.5 (undefined > 0.5 is false)
Expressed(genome, i) == i \in DOMAIN genome /\ genome[i] > HALF

\* the loop of expressTraits from index i on
RECURSIVE expressFrom(_, _, _)
expressFrom(genome, traitPool, i) ==
  IF i < TRAIT_GENE_COUNT /\ i < Length(traitPool)
  THEN (IF Expressed(genome, i) THEN << traitPool[i] >> ELSE << >>)
       \o expressFrom(genome, traitPool, i + 1)
  ELSE << >>

expressTraits(genome, traitPool) == expressFrom(genome, traitPool, 0)

\* child[i] = Math.random() < 0.5 ? genomeA[i] : genomeB[i], the draws being
\* coin[i]
crossoverUniform(genomeA, genomeB, coin) ==
  [i \in 0..(GENOME_LENGTH - 1) |-> IF coin[i] THEN genomeA[i] ELSE genomeB[i]]

\* faulty variant: the gene at the cut point is taken from A as well
crossoverSinglePointInclusive(genomeA, genomeB, point) ==
  [i \in 0..(GENOME_LENGTH - 1) |-> IF i <= point THEN genomeA[i] ELSE genomeB[i]]

\* child[i] = i < point ? genomeA[i] : genomeB[i]
crossoverSinglePoint(genomeA, genomeB, point) ==
  [i \in 0..(GENOME_LENGTH - 1) |-> IF i < point THEN genomeA[i] ELSE genomeB[i]]

\* the two draws r1, r2 are ordered first: if (p1 > p2) [p1, p2] = [p2, p1]
crossoverTwoPoint(genomeA, genomeB, r1, r2) ==
  LET p1 == Min(r1, r2)
      p2 == Max(r1, r2)
  IN [i \in 0..(GENOME_LENGTH - 1) |->
        IF i >= p1 /\ i < p2 THEN genomeB[i] ELSE genomeA[i]]

\* Genetics.crossover: dispatch by name, draws being the random draws the
\* chosen operator makes
crossoverBy(genomeA, genomeB, method, draws) ==
  CASE method = "single" -> crossoverSinglePoint(genomeA, genomeB, draws.r1)
    [] method = "two"    -> crossoverTwoPoint(genomeA, genomeB, draws.r1, draws.r2)
    [] OTHER             -> crossoverUniform(genomeA, genomeB, draws.coin)

\* Math.max(lo, Math.min(hi, x))
clamp(lo, hi, x) == Max(lo, Min(hi, x))

\* Genetics.mutate: the genes of picked are those whose draw was below rate,
\* noise is gaussianRandom() * sigma; the array is changed in place and
\* returned, and a write past its end is dropped
mutateGenes(genome, picked, noise) ==
  [i \in DOMAIN genome |->
     IF i < GENOME_LENGTH /\ i \in picked
     THEN IF i < TRAIT_GENE_COUNT
          THEN clamp(0, 10, genome[i] + noise)
          ELSE clamp(-30, 30, genome[i] + noise)
     ELSE genome[i]]

\* Array.prototype.slice(from, to)
slice(a, from, to) ==
  LET lo == Min(Length(a), from)
      hi == Max(lo, Min(Length(a), to))
  IN [i \in 0..(hi - lo - 1) |-> a[lo + i]]

\* Genetics.buildBrain and the NeuralNetwork constructor
buildBrain(genome) ==
  [ topology    |-> NN_TOPOLOGY,
    weightCount |-> countWeights(NN_TOPOLOGY),
    weights     |-> slice(genome, TRAIT_GENE_COUNT, GENOME_LENGTH) ]

\* NeuralNetwork.getWeights: a copy of the weights
getWeights(brain) == brain.weights

\* faulty variant: the weights are written from index 0 on
writeBrainToGenomeAtZero(genome, brain) ==
  LET w == getWeights(brain) IN
  [i \in DOMAIN genome |->
     IF i < NN_WEIGHT_COUNT /\ i \in DOMAIN w THEN w[i] ELSE genome[i]]

\* Genetics.writeBrainToGenome: genome[TRAIT_GENE_COUNT + i] = w[i] for
\* i < NN_WEIGHT_COUNT, in place; the genome afterwards
writeBrainToGenome(genome, brain) ==
  LET w == getWeights(brain) IN
  [i \in DOMAIN genome |->
     IF i >= TRAIT_GENE_COUNT /\ i - TRAIT_GENE_COUNT < NN_WEIGHT_COUNT
     THEN IF (i - TRAIT_GENE_COUNT) \in DOMAIN w
          THEN w[i - TRAIT_GENE_COUNT] ELSE NaN
     ELSE genome[i]]

\* createBacterium lines 225-242: the genome and the two fields derived
\* from it
derive(genome) ==
  [ genome |-> genome,
    traits |-> expressTraits(genome, TRAIT_POOL),
    brain  |-> buildBrain(genome) ]

\* faulty variant: mutate is handed the parent's own array
budInPlace(parent, picked, noise) ==
  LET childGenome == mutateGenes(parent.genome, picked, noise) IN
  [ parent |-> [parent EXCEPT !.genome = childGenome],
    child  |-> derive(childGenome) ]

\* budding, lines 601-610: mutate works on new Float64Array(parent.genome);
\* the parent afterwards and the child
bud(parent, picked, noise) ==
  LET childGenome == mutateGenes(parent.genome, picked, noise) IN
  [ parent |-> parent,
    child  |-> derive(childGenome) ]

\* in-process reproduction, lines 513-523: crossover returns a new array,
\* mutate changes that array; the parents afterwards and the child
breed(parentA, parentB, method, draws, picked, noise) ==
  LET childGenome ==
        mutateGenes(crossoverBy(parentA.genome, parentB.genome, method, draws),
                    picked, noise)
  IN [ parentA |-> parentA,
       parentB |-> parentB,
       child   |-> derive(childGenome) ]

\* Math.tanh on tenths, by its shape: odd, increasing, within [-1, 1]
tanh(sum) == clamp(-10, 10, sum)

\* sum += activation[i] * this.weights[wi++] for i from i0 below prevSize
RECURSIVE weightedSum(_, _, _, _, _)
weightedSum(weights, activation, prevSize, wi, i0) ==
  IF i0 >= prevSize THEN 0
  ELSE activation[i0].v * weights[wi + i0]
       + weightedSum(weights, activation, prevSize, wi, i0 + 1)

\* one neuron: prevSize weights from the cursor wi on, then the bias; a read
\* past the end of the weights yields undefined and the sum is NaN
neuron(weights, activation, prevSize, wi) ==
  LET nan == \/ \E k \in wi..(wi + prevSize) : k \notin DOMAIN weights
             \/ \E i \in 0..(prevSize - 1) : activation[i].nan
  IN [ nan |-> nan,
       v   |-> IF nan THEN 0
               ELSE tanh((weightedSum(weights, activation, prevSize, wi, 0)
                          + 10 * weights[wi + prevSize]) \div 10) ]

\* the layers of forward from layer l on (l counts as in the source)
RECURSIVE forwardFrom(_, _, _, _)
forwardFrom(brain, l, activation, wi) ==
  IF l >= Len(brain.topology)
  THEN [ activation |-> activation, wi |-> wi ]
  ELSE LET prevSize == brain.topology[l]
           currSize == brain.topology[l + 1]
           next == [j \in 0..(currSize - 1) |->
                      neuron(brain.weights, activation, prevSize,
                             wi + j * (prevSize + 1))]
       IN forwardFrom(brain, l + 1, next, wi + currSize * (prevSize + 1))

\* NeuralNetwork.forward: the output, the number of weights it read (the
\* final cursor: it reads indices 0..wi-1 in order), and the two arrays it
\* was given as they are afterwards
forward(brain, inputs) ==
  LET activation == [i \in DOMAIN inputs |-> [nan |-> FALSE, v |-> inputs[i]]]
      r == forwardFrom(brain, 1, activation, 0)
  IN [ output  |-> r.activation,
       reads   |-> r.wi,
       weights |-> brain.weights,
       inputs  |-> inputs ]

\* Ecosystem.config
metabolicCost == 40
fastMetabolicMultiplier == 18
slowMetabolicMultiplier == 5
startEnergy == 100000
overcrowdingThreshold == 180
overcrowdingMultiplier == 2

foodEnergy == 25000
maxEnergy == 150000
predatorEnergyGain == 40000
hazardDamage == 150
BUDDING_ENERGY_THRESHOLD == 100000

\* metaRate * dt of one tick with dt = 1, for popCount living agents
metaRate(traits, popCount) ==
  LET base == IF popCount > overcrowdingThreshold
              THEN (metabolicCost
                    * (overcrowdingThreshold
                       + (popCount - overcrowdingThreshold)
                         * (overcrowdingMultiplier - 1)))
                   \div overcrowdingThreshold
              ELSE metabolicCost
  IN IF "Fast Metabolism" \in traits
     THEN (base * fastMetabolicMultiplier) \div 10
     ELSE IF "Slow Metabolism" \in traits
     THEN (base * slowMetabolicMultiplier) \div 10
     ELSE base

\* faulty variant: an agent at exactly zero energy lives on
StarvedBelowZero(energy) == energy < 0

\* ecosystem.js line 188: if (b.energy <= 0)
Starved(energy) == energy <= 0

\* Ecosystem.update for one living agent b that finds no food, no hazard
\* zone and no other agent in reach: metabolic cost, then starvation
metabolise(b, popCount) ==
  LET e == b.energy - metaRate(b.traits, popCount) IN
  IF Starved(e)
  THEN [b EXCEPT !.energy = 0, !.alive = FALSE, !.deathCause = "starvation"]
  ELSE [b EXCEPT !.energy = e]

\* faulty variant: a fitness at or below zero gets no share of the wheel
wheelShareWithoutFloor(fitness) == fitness

\* Math.max(0.01, b.fitness), fitness in hundredths
wheelShare(fitness) == Max(1, fitness)

\* population.reduce((s, b) => s + Math.max(0.01, b.fitness), 0)
RECURSIVE totalFitnessFrom(_, _)
totalFitnessFrom(population, i) ==
  IF i > Len(population) THEN 0
  ELSE wheelShare(population[i]) + totalFitnessFrom(population, i + 1)

totalFitness(population) == totalFitnessFrom(population, 1)

\* the loop of rouletteSelect from member i on, r being what is left of the
\* draw, in halves of a hundredth; the index of the member returned, the last
\* one if the loop ends
RECURSIVE rouletteFrom(_, _, _)
rouletteFrom(population, i, r) ==
  IF i > Len(population) THEN Len(population)
  ELSE LET r1 == r - 2 * wheelShare(population[i]) IN
       IF r1 <= 0 THEN i ELSE rouletteFrom(population, i + 1, r1)

\* Genetics.rouletteSelect over the fitness values of the population, with
\* the draw r = Math.random() * totalFitness in halves of a hundredth
rouletteSelect(population, r) == rouletteFrom(population, 1, r)

\* faulty variant: a gene at the threshold counts towards the frequency
countsAtThreshold(genome, i) == genome[i] >= HALF

\* shannonDiversity line 558: b.genome[i] > 0.5
counts(genome, i) == genome[i] > HALF

\* freq[i] after the first loop of shannonDiversity, from agent k on
RECURSIVE freqFrom(_, _, _)
freqFrom(population, i, k) ==
  IF k > Len(population) THEN 0
  ELSE (IF counts(population[k], i) THEN 1 ELSE 0)
       + freqFrom(population, i, k + 1)

\* -p * Math.log(p) for p = f / n with 0 < f < n, in thousandths
entropyTerm(f, n) ==
  CASE n = 2 /\ f = 1 -> 347
    [] n = 3 /\ f = 1 -> 366
    [] n = 3 /\ f = 2 -> 270
    [] n = 4 /\ f = 1 -> 347
    [] n = 4 /\ f = 2 -> 347
    [] n = 4 /\ f = 3 -> 216

\* the second loop of shannonDiversity from trait i on
RECURSIVE entropyFrom(_, _, _)
entropyFrom(population, traitCount, i) ==
  IF i >= traitCount THEN 0
  ELSE LET f == freqFrom(population, i, 1)
           n == Len(population)
       IN (IF f > 0 /\ f < n THEN entropyTerm(f, n) ELSE 0)
          + entropyFrom(population, traitCount, i + 1)

\* Genetics.shannonDiversity over the genomes of the population
shannonDiversity(population, traitCount) ==
  IF Len(population) = 0 THEN 0
  ELSE entropyFrom(population, traitCount, 0)

\* faulty variant: energy is added without the cap
gainUncapped(energy, amount) == energy + amount

\* Math.min(cfg.maxEnergy, b.energy + amount)
gain(energy, amount) == Min(maxEnergy, energy + amount)

\* ecosystem.js lines 178-180, done to the prey by the predator whose turn
\* it is
caught(prey) ==
  [prey EXCEPT !.energy = 0, !.alive = FALSE, !.deathCause = "predation"]

\* the body of for (const b of alive), lines 129-192, with dt = 1: the
\* metabolic cost, at most one food, the damage of ev.zones hazard zones that
\* hold b and that it does not resist, the reward if b is a predator and
\* catches a prey, then the starvation test.  The body does not look at
\* b.alive.
bodyOfLoop(b, popCount, ev) ==
  LET e1 == b.energy - metaRate(b.traits, popCount)
      e2 == IF ev.food THEN gain(e1, foodEnergy) ELSE e1
      e3 == e2 - ev.zones * hazardDamage
      e4 == IF "Predatory Behavior" \in b.traits /\ ev.catches
            THEN gain(e3, predatorEnergyGain) ELSE e3
  IN IF Starved(e4)
     THEN [b EXCEPT !.energy = 0, !.alive = FALSE, !.deathCause = "starvation"]
     ELSE [b EXCEPT !.energy = e4]

\* Ecosystem.update as one agent b of the snapshot `alive` goes through it:
\* a predator placed before b in the snapshot may catch it before its turn
\* (ev.caughtBefore), one placed after it may catch it after its turn
\* (ev.caughtAfter, if it is still alive then)
ecosystemUpdateOf(b, popCount, ev) ==
  LET b0 == IF ev.caughtBefore THEN caught(b) ELSE b
      b1 == bodyOfLoop(b0, popCount, ev)
  IN IF ev.caughtAfter /\ b1.alive THEN caught(b1) ELSE b1

\* budding, lines 593 and 613-614: a living parent at or above the threshold
\* that wins the draw gives 0.4 of its energy to the child and keeps 0.6
splitEnergy(b, buds) ==
  IF buds /\ b.alive /\ b.energy >= BUDDING_ENERGY_THRESHOLD
  THEN [ parent |-> [b EXCEPT !.energy = (b.energy * 6) \div 10],
         child  |-> << [b EXCEPT !.energy = (b.energy * 4) \div 10] >> ]
  ELSE [ parent |-> b, child |-> << >> ]

\* faulty variant: the zone just pushed is the one dropped
addHazardZoneDroppingNewest(zones, z) ==
  LET pushed == Append(zones, z) IN
  IF Len(pushed) > MAX_HAZARDS THEN SubSeq(pushed, 1, Len(pushed) - 1)
  ELSE pushed

\* Ecosystem.addHazardZone on the array this.hazardZones, z being the zone
\* it builds: push, then shift when there are more than 5
addHazardZoneTo(zones, z) ==
  LET pushed == Append(zones, z) IN
  IF Len(pushed) > MAX_HAZARDS THEN Tail(pushed) ELSE pushed

----------------------------------------------------------------------------
(* Ecosystem.update over a field: the agents of the array, the food items  *)
(* and the positions.  Positions lie on a line, in units chosen so that    *)
(* an agent touches a food item at distance 0 and a predator reaches a     *)
(* prey at distance 0 or 1.                                                *)

contact == 1       \* b.size + cfg.foodSize, in units of the line
catchRange == 2    \* b.size * cfg.predatorCatchRange, in units of the line

Abs(x) == IF x < 0 THEN -x ELSE x

\* dist < b.size + cfg.foodSize
touches(b, f) == Abs(b.x - f.x) < contact

\* dist < b.size * cfg.predatorCatchRange
inCatchRange(b, prey) == Abs(b.x - prey.x) < catchRange

predatory(b) == "Predatory Behavior" \in b.traits

\* for (let i = this.food.length - 1; i >= 0; i--): the index of the food
\* item b eats, searched downwards from index i, or 0
RECURSIVE firstFood(_, _, _)
firstFood(b, food, i) ==
  IF i = 0 THEN 0
  ELSE IF touches(b, food[i]) THEN i
  ELSE firstFood(b, food, i - 1)

\* faulty variant: a prey that is already dead is not passed over
skipsPreyIgnoringAlive(agents, me, j) == j = me \/ predatory(agents[j])

\* lines 170-171: the two continue statements of the prey loop
skipsPrey(agents, me, j) ==
  j = me \/ ~agents[j].alive \/ predatory(agents[j])

\* for (const prey of alive): the prey the predator `me` catches, searched
\* from position k of the snapshot, or 0
RECURSIVE firstPrey(_, _, _, _)
firstPrey(agents, alive, me, k) ==
  IF k > Len(alive) THEN 0
  ELSE LET j == alive[k] IN
       IF skipsPrey(agents, me, j) THEN firstPrey(agents, alive, me, k + 1)
       ELSE IF inCatchRange(agents[me], agents[j]) THEN j
       ELSE firstPrey(agents, alive, me, k + 1)

\* faulty variant: the eaten item stays in this.food
spliceNone(food, i) == food

\* this.food.splice(i, 1)
splice(food, i) == IF i = 0 THEN food ELSE RemoveAt(food, i)

\* the turn of agent `me` in for (const b of alive), lines 129-197; st holds
\* the agents, this.food, and the history of the tick: who ate which item,
\* and who caught whom, with the prey and the predator as they were then
turn(st, alive, me) ==
  LET b  == st.agents[me]
      fi == firstFood(b, st.food, Len(st.food))
      pj == IF predatory(b) THEN firstPrey(st.agents, alive, me, 1) ELSE 0
      ev == [food |-> fi # 0, zones |-> b.zones, catches |-> pj # 0]
      b1 == bodyOfLoop(b, Len(alive), ev)
  IN [ agents |-> [j \in DOMAIN st.agents |->
                     IF j = me THEN b1
                     ELSE IF j = pj THEN caught(st.agents[j])
                     ELSE st.agents[j]],
       food   |-> splice(st.food, fi),
       eats   |-> IF fi = 0 THEN st.eats
                  ELSE Append(st.eats, [by |-> me, item |-> st.food[fi].id]),
       kills  |-> IF pj = 0 THEN st.kills
                  ELSE Append(st.kills, [by |-> me, prey |-> pj,
                                         was |-> st.agents[pj],
                                         before |-> b, after |-> b1]) ]

RECURSIVE loopFrom(_, _, _)
loopFrom(st, alive, k) ==
  IF k > Len(alive) THEN st
  ELSE loopFrom(turn(st, alive, alive[k]), alive, k + 1)

\* lines 120-197 with dt = 1: the snapshot of the living, then the loop
ecosystemUpdate(agents, food) ==
  LET alive == SelectSeq([i \in 1..Len(agents) |-> i],
                         LAMBDA i : agents[i].alive)
  IN loopFrom([agents |-> agents, food |-> food,
               eats |-> << >>, kills |-> << >>], alive, 1)

\* lines 125-127, in thousandths: 1 up to the threshold, above it
\* 1 + (popCount - threshold) / threshold * (multiplier - 1)
overcrowdingFactor(popCount) ==
  IF popCount > overcrowdingThreshold
  THEN 1000 + ((popCount - overcrowdingThreshold) * 1000
                 * (overcrowdingMultiplier - 1)) \div overcrowdingThreshold
  ELSE 1000

foodSpawnRate == 6     \* cfg.foodSpawnRate = 0.6, in tenths
maxFood == 3           \* cfg.maxFood (150 in the source), scaled
initialFood == 2       \* the items Ecosystem.reset spawns (80), scaled

\* lines 96-99: while (this.foodAccumulator >= 1 && this.food.length <
\* cfg.maxFood) push one item and take 1 from the accumulator (in tenths)
RECURSIVE spawnLoop(_, _, _)
spawnLoop(acc, count, spawned) ==
  IF acc >= 10 /\ count < maxFood
  THEN spawnLoop(acc - 10, count + 1, spawned + 1)
  ELSE [acc |-> acc, count |-> count, spawned |-> spawned]

\* lines 94-99: this.foodAccumulator += cfg.foodSpawnRate * dt, then the loop
spawnFood(acc, count, dt) == spawnLoop(acc + foodSpawnRate * dt, count, 0)

\* faulty variant: the loop over the budders never breaks
capReachedNever(len, cap) == FALSE

\* line 600: if (bacteria.length >= MAX_POPULATION) break
capReached(len, cap) == len >= cap

\* lines 591-598: the living agents at or above the threshold that win the
\* draw (drawn holds the indices whose Math.random() < chance * dt)
buddersOf(agents, drawn) ==
  SelectSeq([i \in 1..Len(agents) |-> i],
            LAMBDA i : /\ agents[i].alive
                       /\ agents[i].energy >= BUDDING_ENERGY_THRESHOLD
                       /\ i \in drawn)

\* lines 599-616: for (const parent of budders), from budder k on; st holds
\* the array and the history of the frame's buds
RECURSIVE budLoop(_, _, _, _, _, _)
budLoop(st, budders, k, cap, picked, noise) ==
  IF k > Len(budders) \/ capReached(Len(st.agents), cap) THEN st
  ELSE LET p      == budders[k]
           parent == st.agents[p]
           halves == splitEnergy(parent, TRUE)
           made   == bud(parent, picked, noise)
           child  == [ energy |-> halves.child[1].energy, alive |-> TRUE,
                       genome |-> made.child.genome ]
       IN budLoop([ agents |-> Append([st.agents EXCEPT ![p] =
                                         [made.parent EXCEPT
                                            !.energy = halves.parent.energy]],
                                      child),
                    buds   |-> Append(st.buds,
                                      [parent |-> p,
                                       child  |-> Len(st.agents) + 1,
                                       len    |-> Len(st.agents)]) ],
                  budders, k + 1, cap, picked, noise)

\* lines 589-616: budding in one frame
budding(agents, cap, sel, drawn, picked, noise) ==
  IF Len(agents) < cap /\ ~sel
  THEN budLoop([agents |-> agents, buds |-> << >>],
               buddersOf(agents, drawn), 1, cap, picked, noise)
  ELSE [agents |-> agents, buds |-> << >>]

----------------------------------------------------------------------------
(* Ecosystem.computeNNInputs on the line: dy = 0, so Math.atan2(dy, dx) /  *)
(* Math.PI is 0 for dx >= 0 and 1 for dx < 0; distances are in units of    *)
(* the line and maxDist units are the normalised distance 1.               *)

Infinity == 999    \* larger than every distance on the field
maxDist == 2       \* Math.sqrt(canvasW * canvasW + canvasH * canvasH)

atan2OverPi(dx) == IF dx < 0 THEN 1 ELSE 0

\* lines 210-221: the nearest food item, the first of the nearest ones
RECURSIVE nearestFoodFrom(_, _, _, _)
nearestFoodFrom(b, food, i, best) ==
  IF i > Len(food) THEN best
  ELSE LET d == Abs(food[i].x - b.x) IN
       nearestFoodFrom(b, food, i + 1,
                       IF d < best.dist THEN [dist |-> d, item |-> i]
                       ELSE best)

\* faulty variant: a dead predator is still a threat
passedOverIgnoringAlive(agents, me, j) == j = me

\* line 229: if (other === b || !other.alive) continue
passedOver(agents, me, j) == j = me \/ ~agents[j].alive

\* line 230: other is a predator and b is not
threatens(other, b) == predatory(other) /\ ~predatory(b)

\* lines 228-240: the nearest predator
RECURSIVE nearestPredatorFrom(_, _, _, _)
nearestPredatorFrom(agents, me, j, best) ==
  IF j > Len(agents) THEN best
  ELSE IF passedOver(agents, me, j)
       THEN nearestPredatorFrom(agents, me, j + 1, best)
  ELSE LET dx == agents[j].x - agents[me].x IN
       nearestPredatorFrom(agents, me, j + 1,
         IF threatens(agents[j], agents[me]) /\ Abs(dx) < best.dist
         THEN [dist |-> Abs(dx), angle |-> atan2OverPi(dx)]
         ELSE best)

\* lines 243-253: the hazard zones b does not resist, by their edge
RECURSIVE nearestHazardFrom(_, _, _, _)
nearestHazardFrom(b, zones, i, best) ==
  IF i > Len(zones) THEN best
  ELSE IF zones[i].resisted THEN nearestHazardFrom(b, zones, i + 1, best)
  ELSE LET dx == zones[i].x - b.x
           d  == Abs(dx) - zones[i].radius
       IN nearestHazardFrom(b, zones, i + 1,
            IF d < best.dist THEN [dist |-> d, angle |-> atan2OverPi(dx)]
            ELSE best)

\* lines 205-262: the food and threat inputs of agent `me`
computeNNInputs(agents, me, food, zones) ==
  LET b       == agents[me]
      nearest == nearestFoodFrom(b, food, 1, [dist |-> Infinity, item |-> 0])
      pred    == nearestPredatorFrom(agents, me, 1,
                                     [dist |-> Infinity, angle |-> 0])
      threat  == nearestHazardFrom(b, zones, 1, pred)
  IN [ foodAngle   |-> IF nearest.item # 0
                       THEN atan2OverPi(food[nearest.item].x - b.x) ELSE 0,
       foodDist    |-> IF nearest.item # 0
                       THEN Min(nearest.dist, maxDist) ELSE maxDist,
       threatAngle |-> threat.angle,
       threatDist  |-> Min(threat.dist, maxDist) ]

\* part_001 lines 204-226, createBacterium without a genome: indices is the
\* shuffled list of the 40 trait indices (a JS array, from 0), and the gene
\* at indices[i] becomes 0.5 + Math.random() * 0.5 for i below
\* traitsPerBacterium and Math.random() * 0.45 otherwise (high[i] and low,
\* in tenths); the weight genes are those of createGenome
biasedGenome(indices, traitsPerBacterium, high, low) ==
  [g \in 0..(GENOME_LENGTH - 1) |->
     IF g >= TRAIT_GENE_COUNT THEN 2
     ELSE LET i == CHOOSE k \in DOMAIN indices : indices[k] = g IN
          IF i < traitsPerBacterium THEN high[i] ELSE low]

\* lines 229-230: the traits of the fresh agent
freshTraits(indices, traitsPerBacterium, high, low) ==
  expressTraits(biasedGenome(indices, traitsPerBacterium, high, low),
                TRAIT_POOL)

----------------------------------------------------------------------------
(* The harness: one call of one function on drawn arguments, or one agent   *)
(* taken through successive ticks.                                           *)

LabLens == {106, 114}               \* lengths of the genomes handed in
LabVals == {-35, 2, 5, 8, 17}       \* gene values, in and out of range
GeneMasks == { {}, {0}, {1, 39}, {39, 40}, {40, 105, 113},
               0..(GENOME_LENGTH - 1) }
CutPoints == {0, 1, 39, 40, 41, 112, 113}
Noises == {-100, -3, 3, 100}        \* gaussianRandom() * sigma
InputVecs == { [i \in 0..5 |-> v] : v \in {-10, 0, 10} }
               \cup { [i \in 0..5 |-> 2 * i - 5] }
PopCounts == {1, 360}
TraitSets == { {}, {"Fast Metabolism"}, {"Slow Metabolism"} }

LabGenomes ==
  { [i \in 0..(n - 1) |-> IF i \in S THEN a ELSE b] :
      n \in LabLens, S \in GeneMasks, a \in LabVals, b \in LabVals }

\* parents as the engine breeds them: of the engine's length, genes within
\* range
ParentGenomes ==
  { g \in LabGenomes :
      Length(g) = GENOME_LENGTH /\ \A i \in DOMAIN g : g[i] \in GeneVals }

Coins == { [i \in 0..(GENOME_LENGTH - 1) |-> i \in S] : S \in GeneMasks }

\* fitness values of the populations handed to the selection operators, in
\* hundredths
FitnessPools == { << 1000, 500, 100 >>, << 0, 200 >>, << -300 >>,
                  << 100, 100, 100 >> }

\* genomes of the populations handed to the statistics: no trait, five
\* traits, five others, the first of them at the threshold, all traits
SampleGenomes ==
  { [i \in 0..(GENOME_LENGTH - 1) |-> IF i \in S THEN a ELSE 2] :
      S \in { {}, 0..4, 1..5, 0..(TRAIT_GENE_COUNT - 1) }, a \in {5, 8, 9} }

SamplePopulations == UNION { [1..n -> SampleGenomes] : n \in 0..MaxSample }

\* energy of an agent at the start of a tick, in thousandths
Energies == {1, 40, 41, 190, 99999, 100000, 125000, 149999, 150000}
TickTraits == { {}, {"Fast Metabolism"}, {"Predatory Behavior"} }

\* what happens to the agent in the tick; only a non-predator is caught
TickEvents(traits) ==
  { ev \in [ caughtBefore : BOOLEAN, caughtAfter : BOOLEAN, food : BOOLEAN,
             zones : 0..2, catches : BOOLEAN, buds : BOOLEAN ] :
      /\ (ev.caughtBefore \/ ev.caughtAfter)
           => "Predatory Behavior" \notin traits
      /\ ~(ev.caughtBefore /\ ev.caughtAfter)
      /\ ev.catches => "Predatory Behavior" \in traits }

Idle == fn = "none" /\ subject = << >>

CallExpressTraits ==
  /\ Idle
  /\ \E genome \in LabGenomes :
       /\ fn' = "expressTraits"
       /\ arg' = [genome |-> genome]
       /\ ret' = [value |-> expressTraits(genome, TRAIT_POOL), genome |-> genome]
  /\ UNCHANGED << simVars, subject, tick >>

CallCrossover ==
  /\ Idle
  /\ \E genomeA \in ParentGenomes, genomeB \in ParentGenomes,
        method \in {"uniform", "single", "two"} :
     \E draws \in CASE method = "single" -> [r1 : CutPoints]
                   [] method = "two"    -> [r1 : CutPoints, r2 : CutPoints]
                   [] OTHER             -> [coin : Coins] :
          /\ fn' = "crossover"
          /\ arg' = [genomeA |-> genomeA, genomeB |-> genomeB,
                     method |-> method, draws |-> draws]
          /\ ret' = [value |-> crossoverBy(genomeA, genomeB, method, draws),
                     genomeA |-> genomeA, genomeB |-> genomeB]
  /\ UNCHANGED << simVars, subject, tick >>

CallMutate ==
  /\ Idle
  /\ \E genome \in LabGenomes, picked \in GeneMasks, noise \in Noises :
       /\ fn' = "mutate"
       /\ arg' = [genome |-> genome, picked |-> picked, noise |-> noise]
       /\ ret' = [value |-> mutateGenes(genome, picked, noise)]
  /\ UNCHANGED << simVars, subject, tick >>

CallWriteBrainToGenome ==
  /\ Idle
  /\ \E genome \in LabGenomes :
       /\ fn' = "writeBrainToGenome"
       /\ arg' = [genome |-> genome]
       /\ ret' = [genome |-> writeBrainToGenome(genome, buildBrain(genome))]
  /\ UNCHANGED << simVars, subject, tick >>

CallForward ==
  /\ Idle
  /\ \E genome \in LabGenomes, inputs \in InputVecs :
       LET brain == buildBrain(genome) IN
       /\ fn' = "forward"
       /\ arg' = [brain |-> brain, inputs |-> inputs]
       /\ ret' = forward(brain, inputs)
  /\ UNCHANGED << simVars, subject, tick >>

\* one budding parent of the frame
CallBud ==
  /\ Idle
  /\ \E genome \in LabGenomes, picked \in GeneMasks, noise \in Noises :
       LET parent == derive(genome) IN
       /\ fn' = "bud"
       /\ arg' = [parent |-> parent, picked |-> picked, noise |-> noise]
       /\ ret' = bud(parent, picked, noise)
  /\ UNCHANGED << simVars, subject, tick >>

\* one offspring of reproduceGA
CallBreed ==
  /\ Idle
  /\ \E genomeA \in ParentGenomes, genomeB \in ParentGenomes,
        method \in {"uniform", "single"}, noise \in Noises :
     \E draws \in CASE method = "single" -> [r1 : CutPoints]
                   [] OTHER             -> [coin : Coins] :
       LET parentA == derive(genomeA)
           parentB == derive(genomeB)
           picked  == {39, 40}
       IN /\ fn' = "breed"
          /\ arg' = [parentA |-> parentA, parentB |-> parentB,
                     method |-> method, draws |-> draws,
                     picked |-> picked, noise |-> noise]
          /\ ret' = breed(parentA, parentB, method, draws, picked, noise)
  /\ UNCHANGED << simVars, subject, tick >>

CallRouletteSelect ==
  /\ Idle
  /\ \E population \in FitnessPools :
     \E r \in 0..(2 * totalFitness(population) - 1) :
       /\ fn' = "rouletteSelect"
       /\ arg' = [population |-> population, r |-> r]
       /\ ret' = [index |-> rouletteSelect(population, r)]
  /\ UNCHANGED << simVars, subject, tick >>

CallShannonDiversity ==
  /\ Idle
  /\ \E population \in SamplePopulations :
       /\ fn' = "shannonDiversity"
       /\ arg' = [population |-> population]
       /\ ret' = [H |-> shannonDiversity(population, TRAIT_GENE_COUNT)]
  /\ UNCHANGED << simVars, subject, tick >>

\* one frame of update for one agent: Ecosystem.update, then budding
CallTick ==
  /\ Idle
  /\ \E energy \in Energies, traits \in TickTraits, popCount \in PopCounts :
     \E ev \in TickEvents(traits) :
       LET b == [ energy |-> energy, alive |-> TRUE, deathCause |-> "",
                  traits |-> traits ]
           afterUpdate == ecosystemUpdateOf(b, popCount, ev)
       IN /\ fn' = "tick"
          /\ arg' = [b |-> b, popCount |-> popCount, ev |-> ev]
          /\ ret' = [ afterUpdate |-> afterUpdate,
                      afterFrame  |-> splitEnergy(afterUpdate, ev.buds) ]
  /\ UNCHANGED << simVars, subject, tick >>

\* addHazardZone, on the empty array Ecosystem.reset leaves or on the array
\* the call before left; a zone is named by the number of the call that
\* built it.  Ecosystem.update changes the fields of the zones (drift,
\* pulse, age), not the array.
CallAddHazardZone ==
  /\ subject = << >>
  /\ fn \in {"none", "addHazardZone"}
  /\ LET zones == IF fn = "none" THEN << >> ELSE ret.zones
         z     == IF fn = "none" THEN 1 ELSE ret.z + 1
     IN /\ z <= MaxZonesAdded
        /\ fn' = "addHazardZone"
        /\ arg' = [zones |-> zones]
        /\ ret' = [zones |-> addHazardZoneTo(zones, z), z |-> z]
  /\ UNCHANGED << simVars, subject, tick >>

\* the call is over
Return ==
  /\ fn # "none"
  /\ fn' = "none"
  /\ arg' = << >>
  /\ ret' = << >>
  /\ UNCHANGED << simVars, subject, tick >>

\* createBacterium, as far as the metabolism reads the agent
Spawn ==
  /\ Idle
  /\ \E traits \in TraitSets, popCount \in PopCounts :
       subject' = [ energy |-> startEnergy, alive |-> TRUE, deathCause |-> "",
                    traits |-> traits, popCount |-> popCount ]
  /\ UNCHANGED << simVars, fn, arg, ret, tick >>

\* Ecosystem.update(1, ...) with the subject among the living
EcosystemUpdate ==
  /\ subject # << >>
  /\ subject.alive
  /\ subject' = metabolise(subject, subject.popCount)
  /\ tick' = tick + 1
  /\ UNCHANGED << simVars, fn, arg, ret >>

UnitNext ==
  \/ CallExpressTraits
  \/ CallCrossover
  \/ CallMutate
  \/ CallWriteBrainToGenome
  \/ CallForward
  \/ CallBud
  \/ CallBreed
  \/ CallRouletteSelect
  \/ CallShannonDiversity
  \/ CallTick
  \/ CallAddHazardZone
  \/ Return
  \/ Spawn
  \/ EcosystemUpdate

UnitSpec == Init /\ [][UnitNext]_vars

----------------------------------------------------------------------------
(* The field harness: one call of a function of Ecosystem on a drawn field *)

MaxField == 3      \* agents on the field
MaxItems == 2      \* food items on the field

Places == 0..2
FieldEnergies == {30, 130000}

\* an agent as Ecosystem reads it; zones is the number of hazard zones that
\* hold it and that it does not resist
FieldAgents ==
  { [ energy |-> e, alive |-> a, deathCause |-> IF a THEN "" ELSE "old age",
      traits |-> t, x |-> x, zones |-> 0 ] :
      e \in FieldEnergies, a \in BOOLEAN,
      t \in { {}, {"Predatory Behavior"} }, x \in Places }

Fields == UNION { [1..n -> FieldAgents] : n \in 2..MaxField }

\* this.food, the items named by their index at the start
FoodArrays ==
  UNION { { [i \in 1..n |-> [id |-> i, x |-> xs[i]]] : xs \in [1..n -> Places] }
          : n \in 0..MaxItems }

CallEcosystemUpdate ==
  /\ Idle
  /\ \E agents \in Fields, food \in FoodArrays :
       /\ fn' = "Ecosystem.update"
       /\ arg' = [agents |-> agents, food |-> food]
       /\ ret' = ecosystemUpdate(agents, food)
  /\ UNCHANGED << simVars, subject, tick >>

\* const MAX_POPULATION = 600, unscaled
MAX_POPULATION_UNSCALED == 600

\* numbers of living agents under the hard cap
PopulationSizes == {0, 1, 179, 180, 181, 270, 359, 360, 361, 450, 600}

\* lines 121-127 for a snapshot of popCount living agents
CallOvercrowdingFactor ==
  /\ Idle
  /\ \E popCount \in PopulationSizes :
       /\ popCount <= MAX_POPULATION_UNSCALED
       /\ fn' = "overcrowdingFactor"
       /\ arg' = [popCount |-> popCount]
       /\ ret' = [value |-> overcrowdingFactor(popCount)]
  /\ UNCHANGED << simVars, subject, tick >>

MaxTicks == 6      \* Ecosystem.update calls in a row

\* the food spawning of successive Ecosystem.update calls, from the state
\* Ecosystem.reset leaves or from the state the call before left; between
\* two calls the agents have eaten some of the items; dt is 1, or 3 (the
\* cap of update) after a slow frame
CallSpawnFood ==
  /\ subject = << >>
  /\ fn \in {"none", "spawnFood"}
  /\ LET acc   == IF fn = "none" THEN 0 ELSE ret.acc
         count == IF fn = "none" THEN initialFood ELSE ret.count
         n     == IF fn = "none" THEN 1 ELSE ret.ticks + 1
     IN /\ n <= MaxTicks
        /\ \E eaten \in 0..count, dt \in {1, 3} :
             LET r == spawnFood(acc, count - eaten, dt) IN
             /\ fn' = "spawnFood"
             /\ arg' = [acc |-> acc, count |-> count - eaten, dt |-> dt]
             /\ ret' = [acc |-> r.acc, count |-> r.count,
                        spawned |-> r.spawned, ticks |-> n]
  /\ UNCHANGED << simVars, subject, tick >>

\* an agent as budding reads it; energies in thousandths
BuddingEnergies == {99995, 100000, 149995}
BuddingGenome == [i \in 0..(GENOME_LENGTH - 1) |-> IF i < 3 THEN 8 ELSE 2]
BuddingAgents ==
  { [energy |-> e, alive |-> a, genome |-> BuddingGenome] :
      e \in BuddingEnergies, a \in BOOLEAN }

\* the budding block of update, with the hard cap scaled to the field
CallBudding ==
  /\ Idle
  /\ \E n \in 1..MaxField :
     \E agents \in [1..n -> BuddingAgents], drawn \in SUBSET (1..n),
        cap \in {MAX_POPULATION, MaxField}, sel \in BOOLEAN,
        picked \in {{}, {0, 40}}, noise \in {-3, 100} :
       /\ fn' = "budding"
       /\ arg' = [agents |-> agents, cap |-> cap, selecting |-> sel,
                  drawn |-> drawn]
       /\ ret' = budding(agents, cap, sel, drawn, picked, noise)
  /\ UNCHANGED << simVars, subject, tick >>

\* the agents, food and hazard zones computeNNInputs looks at; resisted
\* says whether the perceiving agent resists the zone
SensedAgents ==
  { [ alive |-> a, traits |-> t, x |-> x ] :
      a \in BOOLEAN, t \in { {}, {"Predatory Behavior"} }, x \in {0, 2} }
SensedFood == { food \in FoodArrays : Len(food) <= 1 }
SensedZones ==
  { << >> } \cup { << [x |-> 1, radius |-> 1, resisted |-> r] >> : r \in BOOLEAN }

CallComputeNNInputs ==
  /\ Idle
  /\ \E n \in 1..MaxField :
     \E agents \in [1..n -> SensedAgents], me \in 1..n,
        food \in SensedFood, zones \in SensedZones :
       /\ fn' = "computeNNInputs"
       /\ arg' = [agents |-> agents, me |-> me, food |-> food,
                  zones |-> zones]
       /\ ret' = computeNNInputs(agents, me, food, zones)
  /\ UNCHANGED << simVars, subject, tick >>

MaxTraitsPerBacterium == 3    \* values of the traits slider tried

\* results of the shuffle: the identity and the reversal
Shuffles ==
  { [i \in 0..(TRAIT_GENE_COUNT - 1) |-> i],
    [i \in 0..(TRAIT_GENE_COUNT - 1) |-> TRAIT_GENE_COUNT - 1 - i] }

\* 0.5 + Math.random() * 0.5 lies in [0.5, 1.0), Math.random() * 0.45 in
\* [0, 0.45); in tenths
HighDraws == {5, 6, 9}
LowDraws == {0, 4}

CallCreateBacterium ==
  /\ Idle
  /\ \E indices \in Shuffles, traitsPerBacterium \in 0..MaxTraitsPerBacterium,
        high \in [0..(MaxTraitsPerBacterium - 1) -> HighDraws],
        low \in LowDraws :
       /\ fn' = "createBacterium"
       /\ arg' = [indices |-> indices,
                  traitsPerBacterium |-> traitsPerBacterium,
                  high |-> high, low |-> low]
       /\ ret' = [traits |-> freshTraits(indices, traitsPerBacterium,
                                         high, low)]
  /\ UNCHANGED << simVars, subject, tick >>

FieldNext ==
  \/ CallEcosystemUpdate
  \/ CallCreateBacterium
  \/ CallComputeNNInputs
  \/ CallBudding
  \/ CallSpawnFood
  \/ CallOvercrowdingFactor
  \/ Return

FieldSpec == Init /\ [][FieldNext]_vars

----------------------------------------------------------------------------
(* Properties *)

CeilPercent(pct, n) == (pct * n + 99) \div 100

\* the living agents of the active set
Living == FilterAlive(pool, bacteria)

\* C1: after a selection event applied to P living agents the number of
\* survivors is at least max(ceil(0.15*P), min(10, P)); a selection event
\* never empties a non-empty population.
SurvivorFloor ==
  [][ generation' = generation + 1
        => Len(bacteria') >= Max(CeilPercent(15, Len(Living)),
                                 Min(10, Len(Living))) ]_vars

\* C2: a reset during a selection/reproduction sequence discards the deferred
\* reproduction: with no selection accepted since the last initialisation
\* (generation = 0) no step of the deferred callback alters the active set.
ResetDiscardsDeferredReproduction ==
  [][ generation = 0 /\ generation' = 0 /\ epoch' = epoch
      /\ selPhase' # selPhase
        => bacteria' = bacteria ]_vars

\* C3: the active set never holds more than MAX_POPULATION agents.
PopulationCap == Len(bacteria) <= MAX_POPULATION

\* C4: survival in a selection event is a draw, not a threshold: whenever a
\* selection event can be accepted, a living agent whose gene at the selected
\* index is at most 0.5 can survive it and one whose gene is above 0.5 can
\* die in it.
SurvivalIsADraw ==
  \A traitIndex \in TraitIdx : \A u \in Range(Living) :
    ENABLED triggerSelectionAt(traitIndex)
      => IF hasTrait(pool[u].genome, traitIndex)
         THEN ENABLED (triggerSelectionAt(traitIndex) /\ ~pool'[u].alive)
         ELSE ENABLED (triggerSelectionAt(traitIndex) /\ pool'[u].alive)

\* C5: from the acceptance of a selection event until its deferred
\* reproduction has completed, an animation frame creates no agent.
NoBuddingWhileSelecting ==
  [][ InFlight /\ selPhase' = selPhase /\ epoch' = epoch
      /\ initReqs' = initReqs
        => Len(pool') = Len(pool) /\ bacteriaIdCounter' = bacteriaIdCounter
             /\ Range(bacteria') \subseteq Range(bacteria) ]_vars

\* a frame can run during a selection event, with a living agent in an active
\* set below the cap and room for its child
FrameDuringSelection ==
  /\ InFlight /\ selecting
  /\ bootPhase = "running" /\ ~paused
  /\ Len(bacteria) < MAX_POPULATION
  /\ Len(Living) > 0
  /\ Len(pool) < MaxAgents

\* the agents a step creates
Created == (DOMAIN pool') \ (DOMAIN pool)

\* C6 as stated: ids are handed out in strictly increasing order and no id
\* is given to two agents during a run: an agent a step creates has an id
\* above the id of every agent that exists, and the ids of one step increase.
IdsNeverReused ==
  [][ /\ \A v \in Created : \A u \in DOMAIN pool : pool'[v].id > pool[u].id
      /\ \A v, w \in Created : v < w => pool'[v].id < pool'[w].id ]_vars

\* C6: between two resets of the id counter, ids are handed out in strictly
\* increasing order and no id is given twice: an agent a step creates has an
\* id above every id handed out since the counter was last reset.
IdsIncreaseBetweenResets ==
  [][ LET base == IF epoch' = epoch THEN bacteriaIdCounter ELSE 0
      IN /\ \A v \in Created :
              pool'[v].id > base /\ pool'[v].id <= bacteriaIdCounter'
         /\ \A v, w \in Created : v < w => pool'[v].id < pool'[w].id
         /\ epoch' = epoch => bacteriaIdCounter' >= bacteriaIdCounter ]_vars

\* after a reset, agents have been created one after the other
AgentsCreatedAfterReset ==
  /\ epoch >= 2
  /\ \E u, v \in Range(bacteria) : pool[u].id = 1 /\ pool[v].id = 2

\* the genomes made in-process
EngineGenomes ==
  { pool[u].genome : u \in { v \in DOMAIN pool : pool[v].genome.by = "engine" } }

DeathIsTerminal ==
  [][ /\ \A u \in DOMAIN pool : ~pool[u].alive => ~pool'[u].alive
      /\ selPhase' # selPhase /\ bacteria' # bacteria
           => \A u \in Range(bacteria') : pool'[u].alive ]_vars

\* the pending callback holds an array with a dead agent in it
DeadAgentAmongSurvivors ==
  /\ InFlight
  /\ \E u \in Range(Survivors) : ~pool[u].alive
  /\ \E u \in Range(Survivors) : pool[u].alive

\* C9: an agent whose alive flag is false (before the step, or set false by
\* it) and that leaves the active set is in the recently-dead collection
\* afterwards, added to it exactly once.
DeadAgentsAreRecorded ==
  [][ epoch' = epoch
        => \A u \in Range(bacteria) :
             /\ u \notin Range(bacteria')
             /\ ~pool[u].alive \/ (pool'[u].id # 0 /\ ~pool'[u].alive)
             => u \in Range(deadBacteria') /\ pool'[u].deadAdds = 1 ]_vars

\* C10: a provider request that fails, a body without the expected fields
\* included, is recovered silently: an answered initialisation request ends
\* with the population created, and an answered reproduction request ends
\* with the deferred reproduction completed.
ProviderFailureIsSilent ==
  [][ /\ Len(initReqs') < Len(initReqs)
           => Len(bacteria') = Len(bacteria) + initialPop
      /\ selPhase = "reproduce" /\ Len(Survivors) > 0
           => selPhase' # "crashed" ]_vars

----------------------------------------------------------------------------
\* C11: a genome whose length is not the engine's is never accepted: every
\* agent of the active set has a genome of GENOME_LENGTH values and a brain
\* holding countWeights(NN_TOPOLOGY) weights.
ActiveGenomesHaveEngineLength ==
  \A i \in 1..Len(bacteria) :
    LET g == pool[bacteria[i]].genome IN
    /\ g.len = GENOME_LENGTH
    /\ brainOf(g).weights = countWeights(NN_TOPOLOGY)

----------------------------------------------------------------------------
\* fitness is computed from energy, survival time and food (computeFitness);
\* a property about elites is stated for every value the agents may have
FitnessVals == {0, 1}

\* Genetics.getElites over the array population of agents whose fitness is
\* given by the function fitness: a stable sort by descending fitness, then
\* the first n
getElites(population, fitness, n) ==
  LET before(i) == { j \in 1..Len(population) :
                       \/ fitness[population[j]] > fitness[population[i]]
                       \/ /\ fitness[population[j]] = fitness[population[i]]
                          /\ j < i }
      at(k) == CHOOSE i \in 1..Len(population) : Cardinality(before(i)) = k - 1
  IN [k \in 1..Min(n, Len(population)) |-> population[at(k)]]

\* the setTimeout callback returns from reproduceGA in this step
ReproductionCompletes == selPhase \in {"timer", "reproduce"} /\ selPhase' = "idle"

\* the agents of the array arr that are in the next active set, gene for gene
\* as they were
Carried(arr) ==
  \A fitness \in [Range(arr) -> FitnessVals] :
    \A e \in Range(getElites(arr, fitness, CeilPercent(elitismPct, Len(arr)))) :
      /\ e \in Range(bacteria')
      /\ pool'[e].genome = pool[e].genome

----------------------------------------------------------------------------
----------------------------------------------------------------------------
\* C14: expressTraits over the 40-entry pool returns exactly the pool's
\* traits whose gene is strictly above 0.5, in increasing order of index; a
\* gene equal to 0.5 is not expressed.
ExpressTraitsTakesGenesAboveHalf ==
  fn = "expressTraits" =>
    LET genome == arg.genome
        value  == ret.value
    IN /\ Range(value) = { TRAIT_POOL[i] : i \in { k \in DOMAIN TRAIT_POOL :
                                 k \in DOMAIN genome /\ genome[k] > HALF } }
       /\ \A a, b \in 1..Len(value) : a < b => value[a] < value[b]
       /\ \A i \in DOMAIN TRAIT_POOL :
            (i \in DOMAIN genome /\ genome[i] = HALF) => i \notin Range(value)
       /\ ret.genome = genome

\* a genome with genes above and genes at the threshold has been expressed
ExpressedWithGeneAtThreshold ==
  /\ fn = "expressTraits"
  /\ Len(ret.value) >= 2
  /\ \E i \in DOMAIN TRAIT_POOL : arg.genome[i] = HALF

----------------------------------------------------------------------------
\* C15: for parents of the engine's genome length each crossover operator
\* returns a new genome of that length in which every gene is parent A's or
\* parent B's gene at the same index; single-point with cut c takes the genes
\* before c from A and the rest from B; two-point with cuts c1 <= c2 takes
\* exactly the genes of [c1, c2) from B.
CrossoverMixesParentsByIndex ==
  fn = "crossover" =>
    LET genomeA == arg.genomeA
        genomeB == arg.genomeB
        child   == ret.value
    IN /\ DOMAIN child = DOMAIN genomeA
       /\ Length(child) = GENOME_LENGTH
       /\ ret.genomeA = genomeA /\ ret.genomeB = genomeB
       /\ \A i \in DOMAIN child : child[i] \in {genomeA[i], genomeB[i]}
       /\ arg.method = "single" =>
            LET c == arg.draws.r1 IN
            /\ \A i \in DOMAIN child : i < c => child[i] = genomeA[i]
            /\ \A i \in DOMAIN child : i >= c => child[i] = genomeB[i]
       /\ arg.method = "two" =>
            \E c1 \in {arg.draws.r1, arg.draws.r2},
               c2 \in {arg.draws.r1, arg.draws.r2} :
              /\ c1 <= c2
              /\ \A i \in DOMAIN child :
                   child[i] = IF c1 <= i /\ i < c2 THEN genomeB[i]
                              ELSE genomeA[i]

\* a two-point crossover whose draws came in descending order produced a
\* child that is neither parent
TwoPointChildIsAMix ==
  /\ fn = "crossover"
  /\ arg.method = "two"
  /\ arg.draws.r1 > arg.draws.r2
  /\ ret.value \notin {arg.genomeA, arg.genomeB}

----------------------------------------------------------------------------
\* C16: after mutate returns, whatever the rate, the sigma and the input
\* genome, no trait gene (index < 40) lies outside [0, 1] and no brain-weight
\* gene (index >= 40) lies outside [-3, 3].
MutatedGenomeIsWithinClamps ==
  fn = "mutate" =>
    \A i \in DOMAIN ret.value :
      IF i < TRAIT_GENE_COUNT
      THEN 0 <= ret.value[i] /\ ret.value[i] <= 10
      ELSE -30 <= ret.value[i] /\ ret.value[i] <= 30

----------------------------------------------------------------------------
\* the brain's weights are the genome's values from index 40 to the end and
\* the traits are those the genome expresses
Coherent(b) ==
  /\ b.brain.weights = slice(b.genome, TRAIT_GENE_COUNT, Length(b.genome))
  /\ b.traits = expressTraits(b.genome, TRAIT_POOL)

\* C17: every agent's brain weights equal its genome's weight segment and
\* its traits equal expressTraits of its genome; budding and breeding leave
\* the genome, the brain and the traits of the existing agents as they were.
BrainAndTraitsFollowGenome ==
  /\ fn = "bud" =>
       /\ Coherent(arg.parent) /\ Coherent(ret.parent) /\ Coherent(ret.child)
       /\ ret.parent = arg.parent
  /\ fn = "breed" =>
       /\ Coherent(ret.parentA) /\ Coherent(ret.parentB) /\ Coherent(ret.child)
       /\ ret.parentA = arg.parentA /\ ret.parentB = arg.parentB

\* a budding whose mutation changed a trait gene and a weight of the child
BuddedWithChangedGenes ==
  /\ fn = "bud"
  /\ ret.child.traits # ret.parent.traits
  /\ ret.child.brain.weights # ret.parent.brain.weights

----------------------------------------------------------------------------
\* C18: writing the brain built from a genome back into that genome leaves
\* every value of the genome as it was.
BrainRoundTripKeepsGenome ==
  fn = "writeBrainToGenome" => ret.genome = arg.genome

\* the round trip has run on a genome whose weight genes differ from its
\* trait genes and from each other
RoundTripOnVariedGenome ==
  /\ fn = "writeBrainToGenome"
  /\ arg.genome[0] # arg.genome[TRAIT_GENE_COUNT]
  /\ arg.genome[TRAIT_GENE_COUNT] # arg.genome[TRAIT_GENE_COUNT + 1]

----------------------------------------------------------------------------
\* C19: the forward pass is a function of the weights and the inputs only;
\* it changes neither the weights nor the input array, and it reads exactly
\* countWeights(topology) weights, none of them past the end of the brain's
\* weight array.
ForwardReadsItsWeightsOnly ==
  fn = "forward" =>
    /\ ret.output = forward(arg.brain, arg.inputs).output
    /\ ret.weights = arg.brain.weights
    /\ ret.inputs = arg.inputs
    /\ ret.reads = countWeights(arg.brain.topology)
    /\ ret.reads <= Length(arg.brain.weights)

----------------------------------------------------------------------------
\* the subject pays the plain metabolic cost: no metabolism trait, no
\* overcrowding
PlainSubject ==
  /\ subject # << >>
  /\ subject.traits = {}
  /\ subject.popCount <= overcrowdingThreshold

\* C20: an agent that starts with energy 100 and pays only the metabolic
\* cost of 0.04 per tick is alive after each of the ticks 1..2499 and dies of
\* starvation in tick 2500.
StarvationInTick2500 ==
  PlainSubject =>
    /\ tick <= 2500
    /\ tick < 2500 => subject.alive /\ subject.energy = startEnergy - 40 * tick
    /\ tick = 2500 => ~subject.alive /\ subject.deathCause = "starvation"

\* the plain subject has starved
PlainSubjectStarved ==
  /\ PlainSubject
  /\ ~subject.alive
  /\ subject.deathCause = "starvation"
  /\ tick = 2500

----------------------------------------------------------------------------
\* member i's cumulative interval on the wheel, in halves of a hundredth:
\* from the sum of the widths before it to that sum plus its own width
WheelLow(population, i) ==
  2 * (totalFitness(population) - totalFitnessFrom(population, i))
WheelHigh(population, i) ==
  2 * (totalFitness(population) - totalFitnessFrom(population, i + 1))

\* C21: roulette selection over a non-empty pool returns a member of the
\* pool, member i exactly when the draw falls in i's cumulative interval of
\* width max(fitness_i, 0.01); each member's share of the draw range is that
\* width, 10/16, 5/16 and 1/16 for fitness [10, 5, 1].
RouletteFollowsCumulativeIntervals ==
  fn = "rouletteSelect" =>
    LET population == arg.population
        i == ret.index
        \* the draws strictly inside the wheel's cells
        inner == { r \in 0..(2 * totalFitness(population) - 1) : r % 2 = 1 }
    IN /\ i \in 1..Len(population)
       /\ WheelLow(population, i) <= arg.r /\ arg.r <= WheelHigh(population, i)
       /\ WheelHigh(population, i) - WheelLow(population, i)
            = 2 * Max(1, population[i])
       /\ \A j \in 1..Len(population) :
            Cardinality({ r \in inner : rouletteSelect(population, r) = j })
              = Max(1, population[j])
       /\ population = << 1000, 500, 100 >> =>
            /\ totalFitness(population) = 1600
            /\ WheelHigh(population, 1) = 2 * 1000
            /\ WheelHigh(population, 2) = 2 * 1500

\* the wheel of fitness [10, 5, 1] returned its last member
RouletteReturnedTheLeastFit ==
  /\ fn = "rouletteSelect"
  /\ arg.population = << 1000, 500, 100 >>
  /\ ret.index = 3

----------------------------------------------------------------------------
\* the traits the genome expresses
TraitsOf(genome) == { i \in 0..(TRAIT_GENE_COUNT - 1) : genome[i] > HALF }

\* C22: Shannon diversity is 0 for an empty population and for every
\* population in which each trait is expressed by all agents or by none, as
\* when all agents express exactly the same 5 traits.
ShannonIsZeroForUniformPopulations ==
  fn = "shannonDiversity" =>
    LET population == arg.population IN
    /\ Len(population) = 0 => ret.H = 0
    /\ (\A a, b \in 1..Len(population) :
          TraitsOf(population[a]) = TraitsOf(population[b])) => ret.H = 0

\* the diversity of several different agents expressing the same five traits
\* was computed
SameFiveTraitsMeasured ==
  /\ fn = "shannonDiversity"
  /\ Len(arg.population) >= 2
  /\ \A a \in 1..Len(arg.population) :
       Cardinality(TraitsOf(arg.population[a])) = 5
  /\ \A a, b \in 1..Len(arg.population) :
       TraitsOf(arg.population[a]) = TraitsOf(arg.population[b])
  /\ \E a, b \in 1..Len(arg.population) :
       arg.population[a] # arg.population[b]

----------------------------------------------------------------------------
InRange(energy) == 0 <= energy /\ energy <= maxEnergy

\* C23: at the end of a tick every agent's energy lies in [0, maxEnergy],
\* whatever combination of metabolism, eating, hazard damage, predation
\* reward and budding occurred, and every agent alive after the ecosystem
\* update has energy above 0.
EnergyStaysInRange ==
  (fn = "tick" /\ InRange(arg.b.energy)) =>
    /\ InRange(ret.afterUpdate.energy)
    /\ ret.afterUpdate.alive => ret.afterUpdate.energy > 0
    /\ InRange(ret.afterFrame.parent.energy)
    /\ ret.afterFrame.parent.alive => ret.afterFrame.parent.energy > 0
    /\ \A i \in 1..Len(ret.afterFrame.child) :
         /\ InRange(ret.afterFrame.child[i].energy)
         /\ ret.afterFrame.child[i].energy > 0

\* a predator near the cap ate, caught a prey and budded in one tick
FedPredatorBudded ==
  /\ fn = "tick"
  /\ arg.ev.food /\ arg.ev.catches /\ arg.ev.zones > 0
  /\ ret.afterUpdate.energy = maxEnergy
  /\ Len(ret.afterFrame.child) = 1

----------------------------------------------------------------------------
\* C24: the number of hazard zones never exceeds 5, and when a sixth zone is
\* added the zone evicted is the one added earliest among those present.
HazardZonesAreCappedOldestFirst ==
  fn = "addHazardZone" =>
    /\ Len(ret.zones) <= 5
    /\ Len(arg.zones) < 5 => ret.zones = Append(arg.zones, ret.z)
    /\ Len(arg.zones) = 5 =>
         LET evicted == Range(arg.zones) \ Range(ret.zones) IN
         /\ Range(ret.zones) = (Range(arg.zones) \ evicted) \cup {ret.z}
         /\ Cardinality(evicted) = 1
         /\ \A e \in evicted : \A y \in Range(arg.zones) : e <= y

\* a zone was added to five zones of which the first ones had gone before
SecondZoneEvicted ==
  /\ fn = "addHazardZone"
  /\ Len(arg.zones) = 5
  /\ arg.zones[1] = 2
  /\ 2 \notin Range(ret.zones)

----------------------------------------------------------------------------
\* C25: horizontal gene transfer can occur in a tick: with a living donor
\* and another living agent in the active set (the donor expressing Gene
\* Transfer and standing within 30 units of the other, both of which a tick
\* may find to be so), a frame is possible after which the recipient
\* expresses a trait that the donor expresses and it did not.
GeneTransferCanOccur ==
  \A d \in Range(bacteria), r \in Range(bacteria) :
    ( /\ bootPhase = "running" /\ ~paused
      /\ d # r /\ pool[d].alive /\ pool[r].alive
      /\ \E t \in TraitIdx :
           hasTrait(pool[d].genome, t) /\ ~hasTrait(pool[r].genome, t) )
    => ENABLED ( /\ update
                 /\ pool'[r].id = pool[r].id
                 /\ \E t \in TraitIdx :
                      /\ hasTrait(pool[d].genome, t)
                      /\ ~hasTrait(pool[r].genome, t)
                      /\ hasTrait(pool'[r].genome, t) )

----------------------------------------------------------------------------
\* C26: while the simulation is paused its state does not advance: in a step
\* that starts and ends paused and is not a reset (or the provider's answer
\* to one), the active set and the hazard zones are unchanged and no agent
\* of the active set dies, whether or not a selection trigger arrives or a
\* deferred reproduction becomes due.
PauseFreezesSimulation ==
  [][ (paused /\ paused' /\ epoch' = epoch /\ initReqs' = initReqs)
      => /\ bacteria' = bacteria
         /\ hazardZones' = hazardZones
         /\ \A u \in Range(bacteria) : pool'[u].alive = pool[u].alive ]_vars

----------------------------------------------------------------------------
\* C27: when the last pending initPopulation of a sequence of resets runs
\* to its end (resets issued while an earlier one still awaits the provider
\* included), the active set holds exactly initialPop living agents, the
\* generation counter is 0 and deadBacteria and the hazard zones are empty.
LastResetCompletes ==
  /\ initReqs' = << >>
  /\ \/ epoch' # epoch
     \/ Len(initReqs) = 1 /\ Len(bacteria') > Len(bacteria)

LastResetLeavesFreshPopulation ==
  [][ LastResetCompletes
      => /\ Len(bacteria') = initialPop
         /\ \A u \in Range(bacteria') : pool'[u].alive
         /\ generation' = 0
         /\ deadBacteria' = << >>
         /\ hazardZones' = 0 ]_vars

----------------------------------------------------------------------------
\* C28: every accepted selection event is eventually followed by selecting
\* returning to false, in every interleaving of frames with the timer and
\* the provider request and for every provider outcome (the model's heap
\* being full, which stops the callback in the model only, is left aside).
SelectionEventuallyEnds ==
  selecting ~> (~selecting \/ Len(pool) = MaxAgents)

----------------------------------------------------------------------------
\* C29: the controller never picks a parent from an empty breeding pool:
\* whenever the pending provider call of reproduceGA ends and offspring are
\* to be made, the survivors array the callback holds is not empty.
NeverBreedsFromEmptyPool ==
  [][ (selPhase = "reproduce" /\ selPhase' # "reproduce"
       /\ offspringCount > 0)
      => Len(Survivors) > 0 ]_vars

----------------------------------------------------------------------------
\* C30: an agent killed by a predator keeps the death cause "predation":
\* of an agent a predator placed before it in the snapshot caught in this
\* tick, the death cause is "predation" when Ecosystem.update returns.
PredationCauseIsKept ==
  (fn = "tick" /\ arg.ev.caughtBefore)
    => ret.afterUpdate.deathCause = "predation"

----------------------------------------------------------------------------
\* C31: only living agents act in Ecosystem.update: an agent a predator
\* caught earlier in the tick consumes no food and pays no cost, so its
\* energy when the update returns is the energy at the moment of its death,
\* which the catch set to 0.
DeadAgentsDoNotAct ==
  (fn = "tick" /\ arg.ev.caughtBefore) => ret.afterUpdate.energy = 0

----------------------------------------------------------------------------
\* C32: in one Ecosystem.update a predator kills at most one prey, the prey
\* is another agent, alive at that moment and not predatory, no agent is
\* killed by two predators, and the predator's energy after its turn is its
\* energy before the catch plus predatorEnergyGain, capped at maxEnergy.
LivingAtStart == { i \in DOMAIN arg.agents : arg.agents[i].alive }

AteInTick(me) == \E e \in 1..Len(ret.eats) : ret.eats[e].by = me

EnergyBeforeCatch(kill) ==
  LET e1 == kill.before.energy
              - metaRate(kill.before.traits, Cardinality(LivingAtStart))
  IN IF AteInTick(kill.by) THEN Min(maxEnergy, e1 + foodEnergy) ELSE e1

OnePreyPerPredator ==
  fn = "Ecosystem.update" =>
    LET K == ret.kills IN
    /\ \A a \in 1..Len(K), b \in 1..Len(K) :
         a # b => K[a].by # K[b].by /\ K[a].prey # K[b].prey
    /\ \A a \in 1..Len(K) :
         /\ K[a].prey # K[a].by
         /\ K[a].was.alive
         /\ ~predatory(K[a].was)
         /\ predatory(K[a].before)
         /\ K[a].after.energy
              = Min(maxEnergy, EnergyBeforeCatch(K[a]) + predatorEnergyGain)

TwoPredatorsOnePrey ==
  /\ fn = "Ecosystem.update"
  /\ Len(ret.kills) = 1
  /\ \E p \in LivingAtStart, q \in LivingAtStart, r \in LivingAtStart :
       /\ p # q
       /\ predatory(arg.agents[p]) /\ predatory(arg.agents[q])
       /\ ~predatory(arg.agents[r])
       /\ inCatchRange(arg.agents[p], arg.agents[r])
       /\ inCatchRange(arg.agents[q], arg.agents[r])
       /\ arg.agents[p].energy + predatorEnergyGain > maxEnergy

----------------------------------------------------------------------------
\* C33 (as stated): in one Ecosystem.update every food item is consumed by
\* at most one agent, that agent is the first agent in iteration order whose
\* distance to the item is below the contact threshold, and no agent
\* consumes more than one item.
InReachOf(item) ==
  { j \in LivingAtStart : touches(arg.agents[j], arg.food[item]) }

----------------------------------------------------------------------------
\* C34: the overcrowding factor is 1 whenever the living population is at
\* or below the overcrowding threshold and, for every living population
\* under the hard cap, never exceeds the configured overcrowding multiplier
\* (values in thousandths).
OvercrowdingFactorIsCapped ==
  fn = "overcrowdingFactor" =>
    /\ arg.popCount <= overcrowdingThreshold => ret.value = 1000
    /\ arg.popCount > overcrowdingThreshold => ret.value > 1000
    /\ ret.value <= 1000 * overcrowdingMultiplier

----------------------------------------------------------------------------
\* C35: food spawning is integral and capped: an update spawns one item per
\* unit taken from the accumulator, never raises the food count above
\* maxFood, ends with the accumulator below 1 or the food count at maxFood
\* or more, and across any sequence of updates the accumulator stays
\* bounded: it is below 1 plus the largest amount one update adds (values
\* in tenths).
FoodSpawningIsIntegralAndBounded ==
  fn = "spawnFood" =>
    /\ ret.acc = arg.acc + foodSpawnRate * arg.dt - 10 * ret.spawned
    /\ ret.count = arg.count + ret.spawned
    /\ ret.count <= maxFood
    /\ ret.acc < 10 \/ ret.count >= maxFood
    /\ ret.acc < 10 + foodSpawnRate * 3

----------------------------------------------------------------------------
\* C36: on a bud the parent keeps 60% and the offspring receives 40% of the
\* parent's energy before the bud, so their sum is that energy; the
\* parent's genome is unchanged; an agent buds at most once per frame, and
\* only if it is alive with energy at or above the budding threshold while
\* the active set is below the hard cap (and no selection is in progress).
BuddingSplitsEnergySixtyForty ==
  fn = "budding" =>
    LET B == ret.buds IN
    /\ \A a \in 1..Len(B), b \in 1..Len(B) : a # b => B[a].parent # B[b].parent
    /\ \A a \in 1..Len(B) :
         LET before == arg.agents[B[a].parent]
             after  == ret.agents[B[a].parent]
             child  == ret.agents[B[a].child]
         IN /\ 10 * after.energy = 6 * before.energy
            /\ 10 * child.energy = 4 * before.energy
            /\ after.energy + child.energy = before.energy
            /\ after.genome = before.genome
            /\ before.alive
            /\ before.energy >= BUDDING_ENERGY_THRESHOLD
            /\ B[a].len < arg.cap
            /\ ~arg.selecting
    /\ \A i \in 1..Len(arg.agents) :
         (\A a \in 1..Len(B) : B[a].parent # i) => ret.agents[i] = arg.agents[i]

SecondBudderStoppedByCap ==
  /\ fn = "budding"
  /\ Len(ret.buds) = 1
  /\ Len(buddersOf(arg.agents, arg.drawn)) = 2
  /\ ret.agents[Len(ret.agents)].genome # BuddingGenome

----------------------------------------------------------------------------
\* C37: no agent perceives itself as a threat, a predator never perceives
\* another predator as a threat, and dead agents are never perceived: the
\* threat inputs are those of the nearest living non-self predator (for a
\* non-predator) or unresisted hazard zone; with no food the food inputs
\* are (angle 0, distance 1) and with no perceivable threat the threat
\* inputs are (angle 0, distance 1).  Distance 1 is maxDist units.
PerceivableThreats ==
  { j \in DOMAIN arg.agents :
      /\ j # arg.me
      /\ arg.agents[j].alive
      /\ predatory(arg.agents[j])
      /\ ~predatory(arg.agents[arg.me]) }

UnresistedZones == { i \in DOMAIN arg.zones : ~arg.zones[i].resisted }

ThreatsAreLivingForeignPredators ==
  fn = "computeNNInputs" =>
    /\ arg.food = << >> => ret.foodAngle = 0 /\ ret.foodDist = maxDist
    /\ (PerceivableThreats = {} /\ UnresistedZones = {})
         => ret.threatAngle = 0 /\ ret.threatDist = maxDist
    /\ (PerceivableThreats # {} /\ UnresistedZones = {})
         => \E j \in PerceivableThreats :
              /\ ret.threatDist = Abs(arg.agents[j].x - arg.agents[arg.me].x)
              /\ \A k \in PerceivableThreats :
                   ret.threatDist <= Abs(arg.agents[k].x - arg.agents[arg.me].x)

DeadPredatorNearerThanLivingOne ==
  /\ fn = "computeNNInputs"
  /\ UnresistedZones = {}
  /\ PerceivableThreats # {}
  /\ ret.threatDist = 2
  /\ \E j \in DOMAIN arg.agents :
       /\ j # arg.me /\ ~arg.agents[j].alive /\ predatory(arg.agents[j])
       /\ arg.agents[j].x = arg.agents[arg.me].x

----------------------------------------------------------------------------
\* C38: a freshly created random agent (no genome supplied) expresses
\* exactly traitsPerBacterium traits, whatever values its gene draws take,
\* a boosted gene drawn at exactly 0.5 included.
FreshAgentExpressesTraitsPerBacterium ==
  fn = "createBacterium" => Len(ret.traits) = arg.traitsPerBacterium

----------------------------------------------------------------------------
\* C39: a selection trigger that arrives while a selection event is in
\* progress, or when no agent is alive, changes nothing: a step that raises
\* the generation counter, adds a hazard zone or schedules the deferred
\* reproduction starts with selecting false and a living agent in the
\* active set, and it raises the generation counter by exactly 1, sets the
\* flag and schedules one reproduction.
OnlyAcceptedTriggersAct ==
  [][ ( \/ generation' > generation
        \/ hazardZones' > hazardZones
        \/ selPhase' = "timer" /\ selPhase # "timer" )
      => /\ ~selecting
         /\ FilterAlive(pool, bacteria) # << >>
         /\ generation' = generation + 1
         /\ selecting'
         /\ selPhase' = "timer" ]_vars

TriggerRejectedWhileSelecting ==
  /\ selecting
  /\ generation < MaxGeneration
  /\ FilterAlive(pool, bacteria) # << >>
  /\ ~ENABLED triggerSelection

====
